---------------------------- MODULE Spec2Model ----------------------------
(***************************************************************************)
(* A model of the unitkit unit algebra (classes Units and Value of         *)
(* src/unitkit/main.py) and of the conversion helpers of                   *)
(* src/units/main.py (can_convert, build_conversion_factor).               *)
(*                                                                         *)
(* A BaseUnit object is a record [id, symbol, exp]: id is its address in   *)
(* the heap of BaseUnit objects (0: an object that is not stored yet), so  *)
(* that two Units lists holding the same object are told apart from two    *)
(* lists holding equal objects.  A Units object is its base_units list.    *)
(* Numbers are exact rationals <<n, d>> with d > 0 in lowest terms.        *)
(***************************************************************************)
EXTENDS Integers, Sequences, FiniteSets, TLC

VARIABLES heap, units, prov, last, val, out, depth, floor

vars == <<heap, units, prov, last, val, out, depth, floor>>

(***************************************************************************)
(* Bounds of the model.                                                    *)
(***************************************************************************)
\* Units objects alive in the unit-algebra machine.
MaxUnits == 3
\* Length of a parsed unit string / explicit base-unit list.
MaxLen == 3
\* Cap on |exp| of a BaseUnit produced by an operation.
MaxExp == 4
\* Largest |exp| of the operands of the multiplication laws.
MaxExpIn == 1
\* Number of times a result is fed back as the left operand of a chain.
MaxChain == 1
\* Units objects made from a unit string.
MaxParsed == 1
\* Largest numerator and denominator of a result that is fed back.
MaxNumber == 4
\* Cap on the decimal digits of an expansion modifier.
MaxDigits == 6

(***************************************************************************)
(* Sequence helpers.                                                       *)
(***************************************************************************)
Remove(s, i) == SubSeq(s, 1, i - 1) \o SubSeq(s, i + 1, Len(s))

Range(s) == {s[k] : k \in 1..Len(s)}

RECURSIVE Concat(_)
Concat(ss) == IF ss = <<>> THEN <<>> ELSE Head(ss) \o Concat(Tail(ss))

RECURSIVE SeqsUpTo(_, _)
SeqsUpTo(S, n) ==
    IF n = 0 THEN {<<>>}
    ELSE LET shorter == SeqsUpTo(S, n - 1)
         IN  shorter \cup {Append(s, x) : s \in shorter, x \in S}

Abs(x) == IF x < 0 THEN -x ELSE x

Min(a, b) == IF a <= b THEN a ELSE b

(***************************************************************************)
(* Exact rational arithmetic for Python's float values.                    *)
(***************************************************************************)
RECURSIVE Gcd(_, _)
Gcd(a, b) == IF b = 0 THEN a ELSE Gcd(b, a % b)

Rat(n, d) ==
    LET s == IF d < 0 THEN -1 ELSE 1
        g == Gcd(Abs(n), Abs(d))
    IN  IF n = 0 THEN <<0, 1>> ELSE <<(s * n) \div g, (s * d) \div g>>

RInt(n) == <<n, 1>>

RAdd(x, y) == Rat(x[1] * y[2] + y[1] * x[2], x[2] * y[2])

RSub(x, y) == Rat(x[1] * y[2] - y[1] * x[2], x[2] * y[2])

RMul(x, y) == Rat(x[1] * y[1], x[2] * y[2])

RDiv(x, y) == Rat(x[1] * y[2], x[2] * y[1])

RLess(x, y) == x[1] * y[2] < y[1] * x[2]

RAbs(x) == <<Abs(x[1]), x[2]>>

RECURSIVE RPow(_, _)
RPow(x, e) ==
    IF e = 0 THEN <<1, 1>>
    ELSE IF e < 0 THEN RPow(RDiv(<<1, 1>>, x), -e)
    ELSE RMul(x, RPow(x, e - 1))

(***************************************************************************)
(* The table of unit definitions (external to main.py): dimension,         *)
(* magnitude relative to the dimension's base unit, base unit, expansion.  *)
(***************************************************************************)
Symbols == {"m", "cm", "km", "g", "mol", "K", "degC", "L"}

Dimension(sym) ==
    CASE sym \in {"m", "cm", "km"} -> "length"
      [] sym = "g" -> "mass"
      [] sym = "mol" -> "substance"
      [] sym \in {"K", "degC"} -> "temperature"
      [] sym = "L" -> "volume"

Dimensions == {Dimension(s) : s \in Symbols}

\* Size of one unit in units of its dimension's base unit.
Magnitude(sym) ==
    CASE sym = "cm" -> <<1, 100>>
      [] sym = "km" -> <<1000, 1>>
      [] OTHER -> <<1, 1>>

DimensionBase(sym) ==
    CASE sym \in {"m", "cm", "km"} -> "m"
      [] sym \in {"K", "degC"} -> "K"
      [] OTHER -> sym

\* L = 1/1000 m^3.
CanExpand(sym) == sym = "L"

ExpansionUnits(sym) == <<[symbol |-> "m", exp |-> 3]>>

ExpansionMagnitude(sym) == <<1, 1000>>

(***************************************************************************)
(* BaseUnit.                                                               *)
(***************************************************************************)
BaseUnit(sym, e) == [id |-> 0, symbol |-> sym, exp |-> e]

\* The result of a product that cancels.
None == [id |-> 0, symbol |-> "None", exp |-> 0]

\* BaseUnit.__eq__: the same factor iff the same symbol.
BaseEq(a, b) == a.symbol = b.symbol

\* BaseUnit.__bool__, and the truth value of None.
Truthy(a) == a.exp # 0

\* BaseUnit.__mul__ on two units of the same symbol: a new BaseUnit, or None.
BaseMul(a, b) ==
    IF a.exp + b.exp = 0 THEN None ELSE BaseUnit(a.symbol, a.exp + b.exp)

\* BaseUnit.copy.
BaseCopy(a) == BaseUnit(a.symbol, a.exp)

\* BaseUnit.update_exp, as Units.invert and Units.update_exp use it: in place.
BaseUpdateExp(a, k) == [a EXCEPT !.exp = a.exp * k]

\* BaseUnit * BaseUnit and BaseUnit / BaseUnit of two different symbols, as
\* Units.simplify hands them to can_convert: the two-factor expression.
BasePairMul(a, b) == <<a, b>>

BasePairDiv(a, b) == <<a, BaseUpdateExp(b, -1)>>

\* u.mod(): the factor one unit contributes to a conversion factor.
Mod(a) == RPow(RDiv(<<1, 1>>, Magnitude(a.symbol)), a.exp)

\* The symbol -> exponent mapping of a base_units list, as a set of pairs.
Mapping(us) == {<<us[k].symbol, us[k].exp>> : k \in 1..Len(us)}

SymbolsOf(us) == {us[k].symbol : k \in 1..Len(us)}

DistinctSymbols(us) ==
    \A i, j \in 1..Len(us) : us[i].symbol = us[j].symbol => i = j

NoZeroExp(us) == \A k \in 1..Len(us) : us[k].exp # 0

WellFormed(us) == DistinctSymbols(us) /\ NoZeroExp(us)

\* Sum of the exponents a list gives to one symbol / one dimension.
RECURSIVE ExpSum(_, _)
ExpSum(us, sym) ==
    IF us = <<>> THEN 0
    ELSE (IF Head(us).symbol = sym THEN Head(us).exp ELSE 0) + ExpSum(Tail(us), sym)

RECURSIVE DimSum(_, _)
DimSum(us, dim) ==
    IF us = <<>> THEN 0
    ELSE (IF Dimension(Head(us).symbol) = dim THEN Head(us).exp ELSE 0)
         + DimSum(Tail(us), dim)

\* `x in lst` on BaseUnits.
In(u, us) == \E k \in 1..Len(us) : BaseEq(us[k], u)

\* [x for x in lst if x == u][0]
First(us, u) == us[CHOOSE k \in 1..Len(us) :
                      /\ BaseEq(us[k], u)
                      /\ \A j \in 1..(k - 1) : ~BaseEq(us[j], u)]

(***************************************************************************)
(* conversions.can_convert: every dimension's summed exponent is zero.     *)
(***************************************************************************)
can_convert(us) == \A dim \in Dimensions : DimSum(us, dim) = 0

(***************************************************************************)
(* Module functions of unitkit/main.py.                                    *)
(***************************************************************************)
\* An element of a base_units argument: a BaseUnit, or a nested Units.
BaseItem(u) == [kind |-> "base", unit |-> u, base_units |-> <<>>]

UnitsItem(us) == [kind |-> "units", unit |-> None, base_units |-> us]

Items(us) == [k \in 1..Len(us) |-> BaseItem(us[k])]

\* A nested Units with base units is replaced by them; anything else is kept.
flatten_unit_list(items) ==
    Concat([k \in 1..Len(items) |->
               IF items[k].kind = "units" /\ items[k].base_units # <<>>
               THEN items[k].base_units
               ELSE <<items[k].unit>>])

\* The inner while loop: merge into current every later unit equal to it.
RECURSIVE CombineScan(_, _, _)
CombineScan(current, remaining, i) ==
    IF i > Len(remaining)
    THEN [current |-> current, remaining |-> remaining]
    ELSE IF BaseEq(current, remaining[i])
    THEN LET merged == BaseMul(current, remaining[i])
             rest == Remove(remaining, i)
         IN  IF merged = None
             THEN [current |-> None, remaining |-> rest]
             ELSE CombineScan(merged, rest, i)
    ELSE CombineScan(current, remaining, i + 1)

\* The outer while loop: pop the last unit, merge, keep it if it is truthy.
RECURSIVE CombineLoop(_, _)
CombineLoop(remaining, combined) ==
    IF remaining = <<>> THEN combined
    ELSE LET r == CombineScan(remaining[Len(remaining)],
                              SubSeq(remaining, 1, Len(remaining) - 1), 1)
         IN  CombineLoop(r.remaining,
                         IF Truthy(r.current) THEN Append(combined, r.current)
                         ELSE combined)

combine_unit_list(us) == CombineLoop(us, <<>>)

(***************************************************************************)
(* class Units.                                                            *)
(***************************************************************************)
\* parse_units: the BaseUnits of the factors of the string, in order.  A
\* unit string is given as the sequence of its factors.
parse_units(string) == [k \in 1..Len(string) |-> BaseUnit(string[k].symbol, string[k].exp)]

\* The loop that takes out the BaseUnits with an exponent of 0.
DropZeroExp(us) == SelectSeq(us, LAMBDA u : u.exp # 0)

\* Units(string): the parsed list, without the zero exponents.
Units_init_parse(string) == DropZeroExp(parse_units(string))

\* Units(base_units = items, parse = False): flattened, combined, without
\* the zero exponents.
Units_init_list(items) == DropZeroExp(combine_unit_list(flatten_unit_list(items)))

Units_copy(self) == [k \in 1..Len(self) |-> BaseCopy(self[k])]

Units_invert(self) == [k \in 1..Len(self) |-> BaseUpdateExp(BaseCopy(self[k]), -1)]

Units_update_exp(self, exp) ==
    [k \in 1..Len(self) |-> BaseUpdateExp(BaseCopy(self[k]), exp)]

\* Units * Units with the second loop appending every unit of other.
Units_mul_AppendAll(self, other) ==
    LET first == [k \in 1..Len(self) |->
                     IF In(self[k], other)
                     THEN BaseMul(self[k], First(other, self[k]))
                     ELSE self[k]]
    IN  SelectSeq(first, Truthy) \o other

\* Units * Units.
Units_mul(self, other) ==
    LET first == [k \in 1..Len(self) |->
                     IF In(self[k], other)
                     THEN BaseMul(self[k], First(other, self[k]))
                     ELSE self[k]]
    IN  SelectSeq(first, Truthy) \o SelectSeq(other, LAMBDA u : ~In(u, self))

\* Units * BaseUnit.
Units_mul_base(self, other) ==
    LET first == [k \in 1..Len(self) |->
                     IF BaseEq(self[k], other)
                     THEN BaseMul(self[k], other)
                     ELSE self[k]]
    IN  SelectSeq(first, Truthy) \o (IF In(other, self) THEN <<>> ELSE <<other>>)

Units_truediv(self, other) == Units_mul(self, Units_invert(other))

Units_is_unitless(self) == Len(self) = 0

\* The inner while loop of simplify, for the popped unit u.
RECURSIVE SimplifyScan(_, _, _)
SimplifyScan(u, remaining, i) ==
    IF i > Len(remaining)
    THEN [u |-> u, remaining |-> remaining, canceled |-> FALSE]
    ELSE IF can_convert(BasePairMul(u, remaining[i]))
    THEN [u |-> u, remaining |-> Remove(remaining, i), canceled |-> TRUE]
    ELSE IF can_convert(BasePairDiv(u, remaining[i]))
    THEN SimplifyScan([u EXCEPT !.exp = u.exp + remaining[i].exp],
                      Remove(remaining, i), i)
    ELSE SimplifyScan(u, remaining, i + 1)

\* The outer while loop: keep holds the units that survive, scanned every
\* popped unit as the loop left it (u.exp += other.exp writes to the object).
RECURSIVE SimplifyLoop(_, _, _)
SimplifyLoop(remaining, keep, scanned) ==
    IF remaining = <<>> THEN [keep |-> keep, scanned |-> scanned]
    ELSE LET r == SimplifyScan(Head(remaining), Tail(remaining), 1)
         IN  SimplifyLoop(r.remaining,
                          IF r.canceled THEN keep ELSE Append(keep, r.u),
                          Append(scanned, r.u))

\* simplify: the new Units, and the scanned objects as simplify left them.
Units_simplify(self) ==
    LET r == SimplifyLoop(self, <<>>, <<>>)
    IN  [units |-> Units_init_list(Items(r.keep)), scanned |-> r.scanned]

\* BaseUnit.to_dimension_base and BaseUnit.full_expand.
to_dimension_base(u) ==
    [unit |-> BaseUnit(DimensionBase(u.symbol), u.exp),
     modifier |-> RPow(Magnitude(u.symbol), u.exp)]

full_expand(u) ==
    LET e == ExpansionUnits(u.symbol)
    IN  [units |-> [k \in 1..Len(e) |-> BaseUnit(e[k].symbol, e[k].exp * u.exp)],
         modifier |-> RPow(ExpansionMagnitude(u.symbol), u.exp)]

\* One pass of the for loop of expand_all.
ExpandOne(u) ==
    LET b == to_dimension_base(u)
    IN  IF CanExpand(b.unit.symbol)
        THEN [units |-> full_expand(b.unit).units,
              modifier |-> RMul(b.modifier, full_expand(b.unit).modifier)]
        ELSE [units |-> <<b.unit>>, modifier |-> b.modifier]

RECURSIVE RProduct(_)
RProduct(rs) == IF rs = <<>> THEN <<1, 1>> ELSE RMul(Head(rs), RProduct(Tail(rs)))

Units_expand_all(self) ==
    [units |-> Units_init_list(Items(Concat([k \in 1..Len(self) |-> ExpandOne(self[k]).units]))),
     modifier |-> RProduct([k \in 1..Len(self) |-> ExpandOne(self[k]).modifier])]

(***************************************************************************)
(* The heap of BaseUnit objects and the Units objects of the program.      *)
(***************************************************************************)
\* The base_units list of ids, as BaseUnit records.
Refs(h, ids) ==
    [k \in 1..Len(ids) |->
        [id |-> ids[k], symbol |-> h[ids[k]].symbol, exp |-> h[ids[k]].exp]]

\* Store a list: the objects not stored yet get the next free addresses.
RECURSIVE Store(_, _)
Store(h, us) ==
    IF us = <<>> THEN [heap |-> h, ids |-> <<>>]
    ELSE LET u == Head(us)
             h1 == IF u.id = 0
                   THEN Append(h, [symbol |-> u.symbol, exp |-> u.exp])
                   ELSE h
             rest == Store(h1, Tail(us))
         IN  [heap |-> rest.heap,
              ids |-> <<IF u.id = 0 THEN Len(h1) ELSE u.id>> \o rest.ids]

\* The writes of u.exp += other.exp to the stored objects.
RECURSIVE WriteBack(_, _)
WriteBack(h, scanned) ==
    IF scanned = <<>> THEN h
    ELSE LET u == Head(scanned)
         IN  WriteBack(IF u.id = 0 THEN h ELSE [h EXCEPT ![u.id].exp = u.exp],
                       Tail(scanned))

RECURSIVE Dedupe(_, _)
Dedupe(s, acc) ==
    IF s = <<>> THEN acc
    ELSE Dedupe(Tail(s), IF Head(s) \in Range(acc) THEN acc ELSE Append(acc, Head(s)))

\* Garbage collection: only the objects some Units holds are kept, numbered
\* in the order the Units objects list them.
Compact(h, uu) ==
    LET order == Dedupe(Concat(uu), <<>>)
        new(i) == CHOOSE k \in 1..Len(order) : order[k] = i
    IN  [heap |-> [k \in 1..Len(order) |-> h[order[k]]],
         units |-> [n \in 1..Len(uu) |-> [k \in 1..Len(uu[n]) |-> new(uu[n][k])]]]

Atoms(us) == [k \in 1..Len(us) |-> [symbol |-> us[k].symbol, exp |-> us[k].exp]]

\* The Units object number n, and the mapping it holds.
Obj(n) == Refs(heap, units[n])

Capped(us) == \A k \in 1..Len(us) : Abs(us[k].exp) <= MaxExp

\* Decimal digits one unit adds to the modifier of expand_all.
RECURSIVE ModifierDigits(_)
ModifierDigits(us) ==
    IF us = <<>> THEN 0
    ELSE Abs(Head(us).exp)
            * (CASE Head(us).symbol = "cm" -> 2
                 [] Head(us).symbol \in {"km", "L"} -> 3
                 [] OTHER -> 0)
         + ModifierDigits(Tail(us))

NoLast ==
    [op |-> "none", a |-> 0, b |-> 0, k |-> 0, res |-> 0, before |-> <<>>,
     modifier |-> <<1, 1>>]

NoValue == [value |-> <<0, 1>>, units |-> <<>>, sigfigs |-> 0]

NoOut ==
    [op |-> "none", a |-> NoValue, b |-> NoValue, number |-> FALSE,
     target |-> <<>>, mw |-> FALSE, path |-> "none", bridge |-> "none",
     warned |-> FALSE, error |-> "none", res |-> NoValue, truth |-> FALSE]

ValueIdle == val = NoValue /\ out = NoOut /\ depth = 0 /\ floor = 0

\* A new Units object holding the list us, made by op from objects a and b
\* (h: the heap as op leaves it).
NewUnits(h, us, op, a, b, k, modifier) ==
    LET st == Store(h, us)
        c == Compact(st.heap, Append(units, st.ids))
    IN  /\ heap' = c.heap
        /\ units' = c.units
        /\ prov' = Append(prov, op)
        /\ last' = [op |-> op, a |-> a, b |-> b, k |-> k, res |-> Len(units) + 1,
                    before |-> IF a = 0 THEN <<>> ELSE Atoms(Obj(a)),
                    modifier |-> modifier]
        /\ UNCHANGED <<val, out, depth, floor>>

\* The same, while no exponent exceeds the cap.
NewCapped(h, us, op, a, b, k, modifier) ==
    /\ \A i \in 1..Len(h) : Abs(h[i].exp) <= MaxExp
    /\ Capped(us)
    /\ NewUnits(h, us, op, a, b, k, modifier)

(***************************************************************************)
(* The unit-algebra machine: one action per operation of class Units.      *)
(***************************************************************************)
InputAtoms ==
    {BaseUnit("m", 1), BaseUnit("cm", 1), BaseUnit("cm", -1), BaseUnit("km", 2),
     BaseUnit("L", 1)}

ParseInputs == SeqsUpTo(InputAtoms, MaxLen)

PowInputs == {-1, 0, 2}

InitUnits ==
    /\ heap = <<>>
    /\ units = <<>>
    /\ prov = <<>>
    /\ last = NoLast
    /\ ValueIdle

\* Units(string)
ConstructParse ==
    /\ Len(units) < MaxUnits - 1
    /\ Cardinality({n \in 1..Len(prov) : prov[n] = "parse"}) < MaxParsed
    /\ \E string \in ParseInputs :
          NewCapped(heap, Units_init_parse(string), "parse", 0, 0, 0, <<1, 1>>)

\* Units(base_units = [...], parse = False) on new BaseUnits and on Units
\* objects with base units.
ConstructList ==
    /\ Len(units) < MaxUnits - 1
    /\ \E l \in SeqsUpTo({[ref |-> 0, unit |-> u] : u \in InputAtoms}
                        \cup {[ref |-> n, unit |-> None] :
                                 n \in {x \in 1..Len(units) : units[x] # <<>>}},
                        MaxLen - 1) :
          LET items == [k \in 1..Len(l) |->
                           IF l[k].ref = 0 THEN BaseItem(l[k].unit)
                           ELSE UnitsItem(Obj(l[k].ref))]
          IN  NewCapped(heap, Units_init_list(items), "list", 0, 0, 0, <<1, 1>>)

\* a * b
Mul ==
    /\ Len(units) < MaxUnits
    /\ \E a, b \in 1..Len(units) :
          NewCapped(heap, Units_mul(Obj(a), Obj(b)), "mul", a, b, 0, <<1, 1>>)

\* a * BaseUnit
MulBase ==
    /\ Len(units) < MaxUnits
    /\ \E a \in 1..Len(units), u \in InputAtoms :
          NewCapped(heap, Units_mul_base(Obj(a), u), "mulbase", a, 0, 0, <<1, 1>>)

\* a / b
Div ==
    /\ Len(units) < MaxUnits
    /\ \E a, b \in 1..Len(units) :
          NewCapped(heap, Units_truediv(Obj(a), Obj(b)), "div", a, b, 0, <<1, 1>>)

Invert ==
    /\ Len(units) < MaxUnits
    /\ \E a \in 1..Len(units) :
          NewCapped(heap, Units_invert(Obj(a)), "invert", a, 0, 0, <<1, 1>>)

Copy ==
    /\ Len(units) < MaxUnits
    /\ \E a \in 1..Len(units) :
          NewCapped(heap, Units_copy(Obj(a)), "copy", a, 0, 0, <<1, 1>>)

\* a.update_exp(k), the units of Value ** k
UpdateExp ==
    /\ Len(units) < MaxUnits
    /\ \E a \in 1..Len(units), k \in PowInputs :
          NewCapped(heap, Units_update_exp(Obj(a), k), "update_exp", a, 0, k, <<1, 1>>)

\* a.simplify(): the product of two BaseUnits of one symbol is no Units, and
\* can_convert has no answer for it, so a holds one BaseUnit per symbol.
Simplify ==
    /\ Len(units) < MaxUnits
    /\ \E a \in 1..Len(units) :
          /\ DistinctSymbols(Obj(a))
          /\ LET r == Units_simplify(Obj(a))
             IN  NewCapped(WriteBack(heap, r.scanned), r.units, "simplify", a, 0, 0,
                          <<1, 1>>)

ExpandAll ==
    /\ Len(units) < MaxUnits
    /\ \E a \in 1..Len(units) :
          /\ ModifierDigits(Obj(a)) <= MaxDigits
          /\ LET r == Units_expand_all(Obj(a))
             IN  NewCapped(heap, r.units, "expand_all", a, 0, 0, r.modifier)

Next ==
    \/ ConstructParse
    \/ ConstructList
    \/ Mul
    \/ MulBase
    \/ Div
    \/ Invert
    \/ Copy
    \/ UpdateExp
    \/ Simplify
    \/ ExpandAll

Spec == InitUnits /\ [][Next]_vars

(***************************************************************************)
(* Claims on the unit-algebra machine.                                     *)
(***************************************************************************)
\* C2: A / A is unitless for every Units A: whenever a Units object is
\* divided by itself, the result holds no atomic unit.
C2_DivideBySelfUnitless ==
    (last.op = "div" /\ last.a = last.b) => Units_is_unitless(Obj(last.res))

\* C3: simplify is idempotent: simplifying the result of a simplify gives the
\* symbol -> exponent mapping that result had.
C3_SimplifyIdempotent ==
    (last.op = "simplify" /\ prov[last.a] = "simplify")
        => Mapping(Obj(last.res)) = Mapping(last.before)

\* C4: no Units object ever holds an atomic unit whose exponent is 0.
C4_NoZeroExponent == \A n \in 1..Len(units) : NoZeroExp(Obj(n))

\* C5: every Units object holds at most one atomic unit per symbol.
C5_OnePerSymbol == \A n \in 1..Len(units) : DistinctSymbols(Obj(n))

\* C11: simplify leaves its receiver unchanged: after a.simplify() returns,
\* the symbol -> exponent mapping of a is the one it had before the call,
\* also when a partner's exponent was folded into the scanned unit.
C11_SimplifyLeavesReceiver ==
    last.op = "simplify" => Mapping(Obj(last.a)) = Mapping(last.before)

(***************************************************************************)
(* The multiplication laws: three well-formed Units A, B, C (objects 1, 2, *)
(* 3) and the products A*B, B*A, (A*B)*C, B*C, A*(B*C) (objects 4 to 8).   *)
(***************************************************************************)
MulSymbols == {"m", "g"}

MulOperands ==
    {s \in SeqsUpTo({BaseUnit(sym, e) : sym \in MulSymbols,
                                         e \in (-MaxExpIn..MaxExpIn) \ {0}},
                    Cardinality(MulSymbols)) : WellFormed(s)}

InitMul ==
    /\ \E A, B, C \in MulOperands :
          LET sa == Store(<<>>, A)
              sb == Store(sa.heap, B)
              sc == Store(sb.heap, C)
          IN  /\ heap = sc.heap
              /\ units = <<sa.ids, sb.ids, sc.ids>>
    /\ prov = <<"in", "in", "in">>
    /\ last = NoLast
    /\ ValueIdle

Product(n, a, b) ==
    /\ Len(units) = n - 1
    /\ NewUnits(heap, Units_mul(Obj(a), Obj(b)), "mul", a, b, 0, <<1, 1>>)

MulAB == Product(4, 1, 2)

MulBA == Product(5, 2, 1)

MulABC == Product(6, 4, 3)

MulBC == Product(7, 2, 3)

MulA_BC == Product(8, 1, 7)

NextMul ==
    \/ MulAB
    \/ MulBA
    \/ MulABC
    \/ MulBC
    \/ MulA_BC

SpecMul == InitMul /\ [][NextMul]_vars

\* The mapping that gives each symbol of the list the sum of its exponents,
\* without the symbols whose sum is 0.
SumMapping(us) ==
    {<<sym, ExpSum(us, sym)>> : sym \in {x \in SymbolsOf(us) : ExpSum(us, x) # 0}}

\* C1: on well-formed Units, multiplication is commutative and associative on
\* the symbol -> exponent mapping: A*B and B*A, and (A*B)*C and A*(B*C), hold
\* one unit per symbol, each with the sum of its exponents in the operands,
\* and no symbol whose sum is 0.
C1_MulCommutativeAssociative ==
    /\ Len(units) >= 5 =>
          /\ Mapping(Obj(4)) = Mapping(Obj(5))
          /\ Mapping(Obj(4)) = SumMapping(Obj(1) \o Obj(2))
          /\ WellFormed(Obj(4)) /\ WellFormed(Obj(5))
    /\ Len(units) >= 8 =>
          /\ Mapping(Obj(6)) = Mapping(Obj(8))
          /\ Mapping(Obj(6)) = SumMapping(Obj(1) \o Obj(2) \o Obj(3))
          /\ WellFormed(Obj(6)) /\ WellFormed(Obj(8))

\* All five products are made, a symbol of A cancels against B, and (A*B)*C
\* and A*(B*C) hold the same units listed in different orders.
C1_Witness ==
    /\ Len(units) = 8
    /\ Atoms(Obj(6)) # Atoms(Obj(8))
    /\ \E sym \in SymbolsOf(Obj(1)) : ExpSum(Obj(1) \o Obj(2), sym) = 0
    /\ Obj(6) # <<>>

(***************************************************************************)
(* class Value: a record [value, units, sigfigs], units a base_units list  *)
(* held by value.                                                          *)
(***************************************************************************)
RECURSIVE NumDigits(_)
NumDigits(n) == IF n < 10 THEN 1 ELSE 1 + NumDigits(n \div 10)

RECURSIVE StripTrailingZeros(_)
StripTrailingZeros(n) ==
    IF n # 0 /\ n % 10 = 0 THEN StripTrailingZeros(n \div 10) ELSE n

RECURSIVE Pow10(_)
Pow10(k) == IF k = 0 THEN 1 ELSE 10 * Pow10(k - 1)

\* The number of decimals str() prints for a float with a finite decimal
\* expansion.
RECURSIVE Decimals(_, _)
Decimals(d, k) == IF Pow10(k) % d = 0 THEN k ELSE Decimals(d, k + 1)

\* d without its factors 2 and 5: 1 iff n/d has a finite decimal expansion.
RECURSIVE OddPart(_)
OddPart(d) ==
    IF d % 2 = 0 THEN OddPart(d \div 2)
    ELSE IF d % 5 = 0 THEN OddPart(d \div 5)
    ELSE d

\* count_sigfigs(number): number an int (float = FALSE) or a float.
\*   int:   len(integer.strip("0"))
\*   float: len((integer + decimal).lstrip("0")); a whole float prints "x.0",
\*          one without a finite decimal expansion prints 16 digits
count_sigfigs(number, float) ==
    LET n == Abs(number[1])
        d == number[2]
    IN  IF ~float
        THEN (IF n = 0 THEN 0 ELSE NumDigits(StripTrailingZeros(n)))
        ELSE IF n = 0 THEN 0
        ELSE IF d = 1 THEN NumDigits(n) + 1
        ELSE IF OddPart(d) # 1 THEN 16
        ELSE NumDigits((n * Pow10(Decimals(d, 0))) \div d)

\* Value(number, units, sigfigs) with units a Units object.
Value_init(number, us, sigfigs) == [value |-> number, units |-> us, sigfigs |-> sigfigs]

\* Value(number, units) with sigfigs = None.
Value_init_counted(number, float, us) ==
    [value |-> number, units |-> us, sigfigs |-> count_sigfigs(number, float)]

\* What an operation gives back: the error it raised or its result, and the
\* receiver as the call leaves it.
Outcome(error, res, path, bridge, self) ==
    [error |-> error, res |-> res, path |-> path, bridge |-> bridge, self |-> self]

\* No molecular weight (mw = None), and a molecular weight.
NoMw == [given |-> FALSE, v |-> NoValue]

Mw(v) == [given |-> TRUE, v |-> v]

\* Value * Value and Value / Value.
Value_mul(self, other) ==
    Value_init(RMul(self.value, other.value), Units_mul(self.units, other.units),
               Min(self.sigfigs, other.sigfigs))

Value_truediv(self, other) ==
    IF other.value[1] = 0
    THEN Outcome("zero_division", NoValue, "none", "none", self)
    ELSE Outcome("none",
                 Value_init(RDiv(self.value, other.value),
                            Units_truediv(self.units, other.units),
                            Min(self.sigfigs, other.sigfigs)),
                 "none", "none", self)

\* Value * number, Value / number, number / Value.
Value_mul_number(self, n) == Value_init(RMul(self.value, n), self.units, self.sigfigs)

Value_truediv_number(self, n) ==
    IF n[1] = 0
    THEN Outcome("zero_division", NoValue, "none", "none", self)
    ELSE Outcome("none", Value_init(RDiv(self.value, n), self.units, self.sigfigs),
                 "none", "none", self)

Value_rtruediv(self, n) ==
    Value_init(RDiv(n, self.value), Units_invert(self.units), self.sigfigs)

\* Value ** exp
Value_pow(self, exp) ==
    Value_init(RPow(self.value, exp), Units_update_exp(self.units, exp), self.sigfigs)

(***************************************************************************)
(* The conversions module: temperature scales and the conversion factor.   *)
(***************************************************************************)
\* Both expressions are one temperature unit to the power 1.
is_temperature_conversion(S, T) ==
    /\ Len(S) = 1 /\ Len(T) = 1
    /\ Dimension(S[1].symbol) = "temperature" /\ S[1].exp = 1
    /\ Dimension(T[1].symbol) = "temperature" /\ T[1].exp = 1

\* degC -> K adds 273.15.
TemperatureOffset(sym) == IF sym = "degC" THEN <<5463, 20>> ELSE <<0, 1>>

get_temperature_converter(S, T, x) ==
    RSub(RAdd(x, TemperatureOffset(S[1].symbol)), TemperatureOffset(T[1].symbol))

\* The for loop of build_conversion_factor: factor *= Value(u.mod(), u).
RECURSIVE FactorLoop(_, _)
FactorLoop(factor, us) ==
    IF us = <<>> THEN factor
    ELSE FactorLoop(Value_mul(factor,
                              Value_init_counted(Mod(Head(us)), TRUE, <<Head(us)>>)),
                    Tail(us))

build_conversion_factor(converter_units, mw, needs_mw) ==
    LET one == Value_init_counted(<<1, 1>>, FALSE, <<>>)
    IN  IF needs_mw
        THEN FactorLoop(Value_mul(one, mw), Units_truediv(converter_units, mw.units))
        ELSE FactorLoop(one, converter_units)

\* Units("g/mol")
MwUnits == Units_init_parse(<<BaseUnit("g", 1), BaseUnit("mol", -1)>>)

\* The factor path without the line new.sigfigs = self.sigfigs.
ConvertByFactor_KeepMin(self, new_units, converter_units, mw, needs_mw, bridge) ==
    LET factor == build_conversion_factor(converter_units, mw, needs_mw)
        new == Value_mul(self, factor)
    IN  Outcome("none", [new EXCEPT !.units = new_units], "factor", bridge, self)

\* The factor path of convert_units, once needs_mw and mw are decided.
ConvertByFactor(self, new_units, converter_units, mw, needs_mw, bridge) ==
    LET factor == build_conversion_factor(converter_units, mw, needs_mw)
        new == Value_mul(self, factor)
    IN  Outcome("none", [new EXCEPT !.units = new_units, !.sigfigs = self.sigfigs],
                "factor", bridge, self)

\* convert_units taking a missing molecular weight for the factor 1.
Value_convert_units_NoMwCheck(self, new_units, mw) ==
    LET converter_units == Units_truediv(new_units, self.units)
        one == Value_init(<<1, 1>>, MwUnits, 1)
    IN  IF is_temperature_conversion(self.units, new_units)
        THEN Outcome("none",
                     Value_init(get_temperature_converter(self.units, new_units,
                                                          self.value),
                                new_units, self.sigfigs),
                     "temperature", "none", self)
        ELSE IF Units_is_unitless(converter_units)
        THEN Outcome("none", Value_init(self.value, new_units, self.sigfigs),
                     "unitless", "none", self)
        ELSE IF can_convert(converter_units)
        THEN ConvertByFactor(self, new_units, converter_units, NoValue, FALSE, "none")
        ELSE IF can_convert(Units_mul(converter_units, MwUnits))
        THEN ConvertByFactor(self, new_units, converter_units,
                             Value_rtruediv(IF mw.given THEN mw.v ELSE one, <<1, 1>>),
                             TRUE, "inverted")
        ELSE IF can_convert(Units_truediv(converter_units, MwUnits))
        THEN ConvertByFactor(self, new_units, converter_units,
                             IF mw.given THEN mw.v ELSE one, TRUE, "direct")
        ELSE Outcome("incompatible", NoValue, "none", "none", self)

\* convert_units without the line mw = 1 / mw.
Value_convert_units_DirectMw(self, new_units, mw) ==
    LET converter_units == Units_truediv(new_units, self.units)
    IN  IF is_temperature_conversion(self.units, new_units)
        THEN Outcome("none",
                     Value_init(get_temperature_converter(self.units, new_units,
                                                          self.value),
                                new_units, self.sigfigs),
                     "temperature", "none", self)
        ELSE IF Units_is_unitless(converter_units)
        THEN Outcome("none", Value_init(self.value, new_units, self.sigfigs),
                     "unitless", "none", self)
        ELSE IF can_convert(converter_units)
        THEN ConvertByFactor(self, new_units, converter_units, NoValue, FALSE, "none")
        ELSE IF can_convert(Units_mul(converter_units, MwUnits))
        THEN (IF ~mw.given
              THEN Outcome("missing_mw", NoValue, "none", "none", self)
              ELSE ConvertByFactor(self, new_units, converter_units, mw.v, TRUE,
                                   "inverted"))
        ELSE IF can_convert(Units_truediv(converter_units, MwUnits))
        THEN (IF ~mw.given
              THEN Outcome("missing_mw", NoValue, "none", "none", self)
              ELSE ConvertByFactor(self, new_units, converter_units, mw.v, TRUE,
                                   "direct"))
        ELSE Outcome("incompatible", NoValue, "none", "none", self)

\* Value.convert_units(new_units, mw)
Value_convert_units(self, new_units, mw) ==
    LET converter_units == Units_truediv(new_units, self.units)
    IN  IF is_temperature_conversion(self.units, new_units)
        THEN Outcome("none",
                     Value_init(get_temperature_converter(self.units, new_units,
                                                          self.value),
                                new_units, self.sigfigs),
                     "temperature", "none", self)
        ELSE IF Units_is_unitless(converter_units)
        THEN Outcome("none", Value_init(self.value, new_units, self.sigfigs),
                     "unitless", "none", self)
        ELSE IF can_convert(converter_units)
        THEN ConvertByFactor(self, new_units, converter_units, NoValue, FALSE, "none")
        ELSE IF can_convert(Units_mul(converter_units, MwUnits))
        THEN (IF ~mw.given
              THEN Outcome("missing_mw", NoValue, "none", "none", self)
              ELSE ConvertByFactor(self, new_units, converter_units,
                                   Value_rtruediv(mw.v, <<1, 1>>), TRUE, "inverted"))
        ELSE IF can_convert(Units_truediv(converter_units, MwUnits))
        THEN (IF ~mw.given
              THEN Outcome("missing_mw", NoValue, "none", "none", self)
              ELSE ConvertByFactor(self, new_units, converter_units, mw.v, TRUE,
                                   "direct"))
        ELSE Outcome("incompatible", NoValue, "none", "none", self)

(***************************************************************************)
(* The operators of Value behind ensure_value_input.                       *)
(***************************************************************************)
\* The other operand of an operator: a Value, or a bare number.
AValue(v) == [number |-> FALSE, v |-> v, n |-> <<0, 1>>]

ANumber(n) == [number |-> TRUE, v |-> NoValue, n |-> n]

\* The decorator with its two branches exchanged: units are assumed when
\* self converts to unitless.
ensure_value_input_Swapped(self, input) ==
    IF ~input.number THEN [input |-> input.v, warned |-> FALSE]
    ELSE IF ~can_convert(self.units)
    THEN [input |-> Value_init_counted(input.n, TRUE, <<>>), warned |-> FALSE]
    ELSE [input |-> Value_init_counted(input.n, TRUE, self.units), warned |-> TRUE]

\* The decorator: the Value the wrapped method gets, and whether it warned.
ensure_value_input(self, input) ==
    IF ~input.number THEN [input |-> input.v, warned |-> FALSE]
    ELSE IF can_convert(self.units)
    THEN [input |-> Value_init_counted(input.n, TRUE, <<>>), warned |-> FALSE]
    ELSE [input |-> Value_init_counted(input.n, TRUE, self.units), warned |-> TRUE]

\* __add__ keeping the sigfigs of self.
Value_add_SelfSigfigs(self, other) ==
    LET c == Value_convert_units(other, self.units, NoMw)
    IN  IF c.error # "none" THEN Outcome(c.error, NoValue, c.path, c.bridge, self)
        ELSE Outcome("none",
                     Value_init(RAdd(self.value, c.res.value), self.units, self.sigfigs),
                     c.path, c.bridge, self)

Value_add(self, other) ==
    LET c == Value_convert_units(other, self.units, NoMw)
    IN  IF c.error # "none" THEN Outcome(c.error, NoValue, c.path, c.bridge, self)
        ELSE Outcome("none",
                     Value_init(RAdd(self.value, c.res.value), self.units,
                                Min(self.sigfigs, c.res.sigfigs)),
                     c.path, c.bridge, self)

Value_sub(self, other) ==
    LET c == Value_convert_units(other, self.units, NoMw)
    IN  IF c.error # "none" THEN Outcome(c.error, NoValue, c.path, c.bridge, self)
        ELSE Outcome("none",
                     Value_init(RSub(self.value, c.res.value), self.units,
                                Min(self.sigfigs, c.res.sigfigs)),
                     c.path, c.bridge, self)

\* __rsub__: Value(other - self.value, self.units, self.sigfigs), other the
\* Value the decorator made, other - self.value the decorated __sub__.
Value_rsub(self, other) ==
    LET d == Value_sub(other, ensure_value_input(other, ANumber(self.value)).input)
    IN  IF d.error # "none" THEN Outcome(d.error, NoValue, d.path, d.bridge, self)
        ELSE Outcome("none", Value_init(d.res.value, self.units, self.sigfigs),
                     d.path, d.bridge, self)

\* __lt__, __gt__, equals: the error raised, or the truth value.
Value_lt(self, other) ==
    LET c == Value_convert_units(other, self.units, NoMw)
    IN  [error |-> c.error,
         truth |-> c.error = "none" /\ RLess(self.value, c.res.value)]

Value_gt(self, other) ==
    LET c == Value_convert_units(other, self.units, NoMw)
    IN  [error |-> c.error,
         truth |-> c.error = "none" /\ RLess(c.res.value, self.value)]

Value_equals(self, other) ==
    LET c == Value_convert_units(other, self.units, NoMw)
    IN  IF c.error # "none" THEN [error |-> c.error, truth |-> FALSE]
        ELSE IF self.value[1] = 0 THEN [error |-> "zero_division", truth |-> FALSE]
        ELSE [error |-> "none",
              truth |-> RLess(RAbs(RDiv(RSub(self.value, c.res.value), self.value)),
                              <<1, 200>>)]

\* The base_units list of a Value's Units, each BaseUnit object at the
\* address of its place in the list.
Located(us) == [k \in 1..Len(us) |-> [us[k] EXCEPT !.id = k]]

\* The list as simplify leaves it: u.exp += other.exp has written to the
\* scanned objects.
AfterScan(us, scanned) ==
    LET h == WriteBack(Atoms(us), scanned)
    IN  [k \in 1..Len(us) |-> BaseUnit(h[k].symbol, h[k].exp)]

\* simplify_units with a simplify that scans copies of the BaseUnits.
Value_simplify_units_ScanCopies(self) ==
    LET s == Units_simplify(Located(self.units))
        new_units == [k \in 1..Len(s.units) |-> BaseCopy(s.units[k])]
    IN  Value_convert_units(self, new_units, NoMw)

\* Value.simplify_units(): new_units = self.units.simplify(), then
\* self.to(new_units) on self as simplify left it.
Value_simplify_units(self) ==
    LET s == Units_simplify(Located(self.units))
        new_units == [k \in 1..Len(s.units) |-> BaseCopy(s.units[k])]
        after == [self EXCEPT !.units = AfterScan(self.units, s.scanned)]
    IN  [call |-> Value_convert_units(after, new_units, NoMw),
         new_units |-> new_units]

(***************************************************************************)
(* The Value machine: val is a Value of the program, out the last call on  *)
(* it (operands as given, the error raised or the result), and a result    *)
(* may become the left operand of the next call.                           *)
(***************************************************************************)
ValueStrings ==
    {<<>>, <<BaseUnit("m", 1)>>, <<BaseUnit("cm", 1)>>, <<BaseUnit("g", 1)>>,
     <<BaseUnit("mol", 1)>>, <<BaseUnit("degC", 1)>>,
     <<BaseUnit("m", 1), BaseUnit("cm", -1)>>}

\* The unit strings a Value is converted to.
TargetStrings == ValueStrings \cup {<<BaseUnit("K", 1)>>}

NumberInputs == {<<0, 1>>, <<2, 1>>}

\* Value(n, string) and Value(2, string, 3)
ValueInputs ==
    {Value_init_counted(n, FALSE, Units_init_parse(string)) :
        n \in NumberInputs, string \in ValueStrings}
    \cup {Value_init(<<2, 1>>, Units_init_parse(string), 3) : string \in ValueStrings}

Operands == {AValue(v) : v \in ValueInputs} \cup {ANumber(n) : n \in NumberInputs}

\* mw = None, Value(18, "g/mol"), and a Value in other units.
MwInputs ==
    {NoMw, Mw(Value_init_counted(<<18, 1>>, FALSE, MwUnits)),
     Mw(Value_init(<<18, 1>>, <<BaseUnit("m", 1)>>, 0))}

UnitsIdle == heap = <<>> /\ units = <<>> /\ prov = <<>> /\ last = NoLast

InitValue ==
    /\ val \in ValueInputs
    /\ out = NoOut
    /\ depth = 0
    /\ floor = val.sigfigs
    /\ UnitsIdle

\* The record of a call of an operator that returns a Value.
Called(op, input, e, r) ==
    /\ out = NoOut
    /\ out' = [NoOut EXCEPT !.op = op, !.a = val, !.b = e.input,
                            !.number = input.number, !.warned = e.warned,
                            !.path = r.path, !.bridge = r.bridge,
                            !.error = r.error, !.res = r.res]
    /\ val' = r.self
    /\ UNCHANGED <<heap, units, prov, last, depth, floor>>

\* The record of a comparison.
Compared(op, input, e, r) ==
    /\ out = NoOut
    /\ out' = [NoOut EXCEPT !.op = op, !.a = val, !.b = e.input,
                            !.number = input.number, !.warned = e.warned,
                            !.error = r.error, !.truth = r.truth]
    /\ UNCHANGED <<heap, units, prov, last, val, depth, floor>>

AsGiven(input) == [input |-> input.v, warned |-> FALSE]

\* val + input
Add ==
    \E input \in Operands :
        LET e == ensure_value_input(val, input)
        IN  Called("add", input, e, Value_add(val, e.input))

\* val - input
Sub ==
    \E input \in Operands :
        LET e == ensure_value_input(val, input)
        IN  Called("sub", input, e, Value_sub(val, e.input))

\* number - val
SubFrom ==
    \E n \in NumberInputs :
        LET e == ensure_value_input(val, ANumber(n))
        IN  Called("rsub", ANumber(n), e, Value_rsub(val, e.input))

\* val * input
Times ==
    \E input \in Operands :
        Called("mul", input, AsGiven(input),
               Outcome("none",
                       IF input.number THEN Value_mul_number(val, input.n)
                       ELSE Value_mul(val, input.v),
                       "none", "none", val))

\* val / input
Over ==
    \E input \in Operands :
        Called("div", input, AsGiven(input),
               IF input.number THEN Value_truediv_number(val, input.n)
               ELSE Value_truediv(val, input.v))

\* val ** exp
Pow ==
    \E exp \in {0, 2} :
        Called("pow", ANumber(<<exp, 1>>), AsGiven(ANumber(<<exp, 1>>)),
               Outcome("none", Value_pow(val, exp), "none", "none", val))

\* val < input
Lt ==
    \E input \in Operands :
        LET e == ensure_value_input(val, input)
        IN  Compared("lt", input, e, Value_lt(val, e.input))

\* val > input
Gt ==
    \E input \in Operands :
        LET e == ensure_value_input(val, input)
        IN  Compared("gt", input, e, Value_gt(val, e.input))

\* val == input
Equals ==
    \E input \in Operands :
        LET e == ensure_value_input(val, input)
        IN  Compared("equals", input, e, Value_equals(val, e.input))

\* val.convert_units(T, mw)
Convert ==
    \E string \in TargetStrings, mw \in MwInputs :
        LET T == Units_init_parse(string)
            r == Value_convert_units(val, T, mw)
        IN  /\ out = NoOut
            /\ out' = [NoOut EXCEPT !.op = "convert", !.a = val, !.target = T,
                                    !.mw = mw.given, !.b = mw.v, !.path = r.path,
                                    !.bridge = r.bridge, !.error = r.error,
                                    !.res = r.res]
            /\ val' = r.self
            /\ UNCHANGED <<heap, units, prov, last, depth, floor>>

\* val.simplify_units(): simplify hands the product of two BaseUnits to
\* can_convert, so val's units hold one BaseUnit per symbol.
SimplifyUnits ==
    /\ out = NoOut
    /\ DistinctSymbols(val.units)
    /\ LET r == Value_simplify_units(val)
       IN  /\ out' = [NoOut EXCEPT !.op = "simplify_units", !.a = val,
                                   !.target = r.new_units, !.path = r.call.path,
                                   !.bridge = r.call.bridge,
                                   !.error = r.call.error, !.res = r.call.res]
           /\ val' = r.call.self
    /\ UNCHANGED <<heap, units, prov, last, depth, floor>>

Arithmetic == {"add", "sub", "mul", "div"}

\* The result of the last call becomes the left operand of the next one.
Feed ==
    /\ depth < MaxChain
    /\ out.op \in Arithmetic \cup {"rsub", "pow", "convert", "simplify_units"}
    /\ out.error = "none"
    /\ Abs(out.res.value[1]) <= MaxNumber /\ out.res.value[2] <= MaxNumber
    /\ val' = out.res
    /\ out' = NoOut
    /\ depth' = depth + 1
    /\ floor' = IF out.op \in Arithmetic /\ ~out.number
                THEN Min(floor, out.b.sigfigs) ELSE floor
    /\ UNCHANGED <<heap, units, prov, last>>

NextValue ==
    \/ Add
    \/ Sub
    \/ SubFrom
    \/ Times
    \/ Over
    \/ Pow
    \/ Lt
    \/ Gt
    \/ Equals
    \/ Convert
    \/ SimplifyUnits
    \/ Feed

SpecValue == InitValue /\ [][NextValue]_vars

(***************************************************************************)
(* Claims on the Value machine.                                            *)
(***************************************************************************)
\* The target's summed exponent of a dimension minus the source's.
DimDiff(S, T, dim) == DimSum(T, dim) - DimSum(S, dim)

\* The two expressions measure the same kind of quantity.
SameDimensions(S, T) == \A dim \in Dimensions : DimDiff(S, T, dim) = 0

\* They differ by substance per mass (mass -> substance) ...
MassToSubstance(S, T) ==
    \A dim \in Dimensions :
        DimDiff(S, T, dim) = (CASE dim = "mass" -> -1 [] dim = "substance" -> 1
                                [] OTHER -> 0)

\* ... or by mass per substance (substance -> mass).
SubstanceToMass(S, T) ==
    \A dim \in Dimensions :
        DimDiff(S, T, dim) = (CASE dim = "mass" -> 1 [] dim = "substance" -> -1
                                [] OTHER -> 0)

\* The size of the unit expression in dimension base units.
UnitScale(us) == RProduct([k \in 1..Len(us) |-> RPow(Magnitude(us[k].symbol), us[k].exp)])

\* C6: the result of add, subtract, multiply and divide of two Values has the
\* minimum of the operands' sigfigs, and the left operand of a chain of such
\* operations never has more sigfigs than any Value that entered the chain.
C6_SigfigsMinimum ==
    /\ (out.op \in Arithmetic /\ ~out.number /\ out.error = "none")
          => out.res.sigfigs = Min(out.a.sigfigs, out.b.sigfigs)
    /\ val.sigfigs <= floor

\* A chained sum of two Values in different units of one dimension, the right
\* operand the less precise one.
C6_Witness ==
    /\ out.op = "add" /\ ~out.number /\ out.error = "none"
    /\ depth >= 1
    /\ out.path = "factor"
    /\ out.b.sigfigs < out.a.sigfigs
    /\ out.res.sigfigs = out.b.sigfigs

\* C7: convert_units outside the temperature and unitless-ratio cases: with
\* the same dimensions it succeeds without a bridge; with a mass <->
\* substance mismatch it raises the missing-molecular-weight error exactly
\* when mw is None, and with a molecular weight in g/mol it divides by it
\* (mass -> substance) or multiplies by it (substance -> mass); otherwise it
\* raises the incompatible-units error.  An error leaves no result.
C7_ConvertErrors ==
    out.op = "convert" =>
        LET S == out.a.units
            T == out.target
            scaled == RMul(out.a.value, RDiv(UnitScale(S), UnitScale(T)))
        IN  /\ out.error # "none" => out.res = NoValue
            /\ (~is_temperature_conversion(S, T)
                  /\ ~Units_is_unitless(Units_truediv(T, S))) =>
                  /\ SameDimensions(S, T) =>
                        /\ out.error = "none" /\ out.bridge = "none"
                        /\ out.res.value = scaled
                  /\ MassToSubstance(S, T) =>
                        /\ out.error = "missing_mw" <=> ~out.mw
                        /\ out.mw => out.error = "none" /\ out.bridge = "inverted"
                        /\ (out.mw /\ out.b.units = MwUnits) =>
                              out.res.value = RDiv(scaled, out.b.value)
                  /\ SubstanceToMass(S, T) =>
                        /\ out.error = "missing_mw" <=> ~out.mw
                        /\ out.mw => out.error = "none" /\ out.bridge = "direct"
                        /\ (out.mw /\ out.b.units = MwUnits) =>
                              out.res.value = RMul(scaled, out.b.value)
                  /\ (~SameDimensions(S, T) /\ ~MassToSubstance(S, T)
                        /\ ~SubstanceToMass(S, T)) =>
                        out.error = "incompatible"

\* A mass converted to an amount of substance with a molecular weight.
C7_Witness ==
    /\ out.op = "convert" /\ out.error = "none"
    /\ out.mw /\ out.b.units = MwUnits
    /\ out.bridge = "inverted"
    /\ out.a.value # <<0, 1>>

\* C8: a successful convert_units returns a Value whose units are the target
\* and whose sigfigs are the source's, on every path and whatever the sigfigs
\* of the factor or the bridge; the source is as it was; and when T / S is
\* unitless the value is the source's.
C8_ConvertResult ==
    (out.op = "convert" /\ out.error = "none") =>
        /\ out.res.units = out.target
        /\ out.res.sigfigs = out.a.sigfigs
        /\ val = out.a
        /\ Units_is_unitless(Units_truediv(out.target, out.a.units))
              => out.res.value = out.a.value

\* A conversion on the factor path whose bridge has fewer sigfigs than the
\* source.
C8_Witness ==
    /\ out.op = "convert" /\ out.error = "none"
    /\ out.path = "factor" /\ out.mw
    /\ out.b.sigfigs < out.a.sigfigs
    /\ out.res.value # out.a.value

Decorated == {"add", "sub", "rsub", "lt", "gt", "equals"}

\* C9, as stated: a bare number is taken as unitless when the left operand
\* carries real dimensions, and as sharing the left operand's units, with a
\* warning, when the left operand is unitless.
C9_NumberUnitlessForDimensioned ==
    (out.op \in Decorated /\ out.number) =>
        /\ ~SameDimensions(<<>>, out.a.units)
              => Units_is_unitless(out.b.units) /\ ~out.warned
        /\ Units_is_unitless(out.a.units)
              => out.b.units = out.a.units /\ out.warned

\* C9, amended: a bare number is taken as unitless, without a warning, when
\* every dimension of the left operand's units sums to zero (unitless
\* included), and as sharing the left operand's units, with a warning, when
\* the left operand carries real dimensions.
C9_NumberUnitsForDimensioned ==
    (out.op \in Decorated /\ out.number) =>
        /\ SameDimensions(<<>>, out.a.units)
              => Units_is_unitless(out.b.units) /\ ~out.warned
        /\ ~SameDimensions(<<>>, out.a.units)
              => out.b.units = out.a.units /\ out.warned

\* A number added to a Value in metres is taken as metres, with a warning.
C9_Witness ==
    /\ out.op = "add" /\ out.number /\ out.error = "none"
    /\ out.a.units = <<BaseUnit("m", 1)>>
    /\ out.b.units = out.a.units
    /\ out.warned

Comparisons == {"lt", "gt", "equals"}

\* C10, as stated: a comparison of two Values whose units differ by a
\* bridgeable (mass <-> substance) mismatch does not raise, and a comparison
\* raises a conversion error only when the units are truly incompatible.
C10_CompareRaisesOnlyIncompatible ==
    (out.op \in Comparisons /\ ~out.number) =>
        LET S == out.b.units
            T == out.a.units
        IN  /\ (MassToSubstance(S, T) \/ SubstanceToMass(S, T))
                  => out.error \notin {"missing_mw", "incompatible"}
            /\ out.error \in {"missing_mw", "incompatible"}
                  => ~(SameDimensions(S, T) \/ MassToSubstance(S, T)
                          \/ SubstanceToMass(S, T))

\* C10, amended: a comparison of two Values raises the error convert_units
\* raises without a molecular weight: none for the same dimensions, the
\* missing-molecular-weight error for a bridgeable mismatch, the
\* incompatible-units error otherwise.
C10_CompareRaisesAsConvert ==
    (out.op \in Comparisons /\ ~out.number) =>
        LET S == out.b.units
            T == out.a.units
        IN  /\ SameDimensions(S, T) => out.error \in {"none", "zero_division"}
            /\ (MassToSubstance(S, T) \/ SubstanceToMass(S, T))
                  => out.error = "missing_mw"
            /\ (~SameDimensions(S, T) /\ ~MassToSubstance(S, T)
                  /\ ~SubstanceToMass(S, T)) => out.error = "incompatible"
            /\ out.error = "zero_division" => (out.op = "equals" /\ out.a.value = <<0, 1>>)

\* A mass compared for equality with an amount of substance.
C10_Witness ==
    /\ out.op = "equals" /\ ~out.number
    /\ out.a.units = <<BaseUnit("g", 1)>>
    /\ out.b.units = <<BaseUnit("mol", 1)>>
    /\ out.error = "missing_mw"

\* C12: for every Value v with well-formed units, v.simplify_units() raises
\* neither the incompatible-units nor the missing-molecular-weight error and
\* returns a Value whose units are the simplified units, also when v's units
\* hold two BaseUnits of one dimension with equal exponents.
C12_SimplifyUnitsCompletes ==
    (out.op = "simplify_units" /\ WellFormed(out.a.units)) =>
        /\ out.error \notin {"incompatible", "missing_mw"}
        /\ out.res.units = out.target

\* With a simplify that scans copies, so that the receiver keeps its
\* exponents, simplify_units of well-formed units raises no error: the error
\* above comes from the write of u.exp += other.exp to the receiver.
SimplifyUnitsOnCopiesCompletes ==
    (out = NoOut /\ WellFormed(val.units)) =>
        LET c == Value_simplify_units_ScanCopies(val)
        IN  /\ c.error = "none"
            /\ c.res.units = Value_simplify_units(val).new_units

=============================================================================
